---- MODULE Spec2Model ----
(***************************************************************************)
(* Model of the ledgit snapshot/versioning engine                          *)
(* (src/lib/ledgit_manager.py): the ignore matcher, the mirror sync, the   *)
(* snapshot engine driving the git backend, the per-session commit ledger, *)
(* the project registry and the remote configuration.                      *)
(*                                                                         *)
(* One source directory is tracked.  A file is a record [data, mtime]; the *)
(* size of a file is a function of its data.  The rule file .gitignore is  *)
(* an ordinary source file whose data stands for the rule lines it holds.  *)
(* Each public method of LedgitManager is one action.  The input `fresh`   *)
(* of an action says whether the call is made through a newly constructed  *)
(* LedgitManager (as each hook process does) or through the existing one.  *)
(***************************************************************************)
EXTENDS Integers, Sequences, FiniteSets, TLC

VARIABLES
    src,          \* the source tree: relative path -> file
    proj,         \* the managed project directory, the registry and the manager's caches
    edits,        \* the number of source edits so far
    saves,        \* history: the records passed to save_commit_record, in call order
    last,         \* history: the last operation, what it returned and what preceded it
    procs,        \* the concurrent create_snapshot invocations: position and locals
    probe         \* the last query put to the identity resolver or the ignore matcher

vars == <<src, proj, edits, saves, last, procs, probe>>

----------------------------------------------------------------------------
(* Bounds of the model *)

\* modification times are drawn from 1..MaxTime; the files of the initial
\* source tree have the modification time MaxTime - 1
MaxTime == 3

\* create_snapshot is not called once the backend holds MaxCommits commits
MaxCommits == 3

\* save_commit_record is not called once the ledger holds MaxLedger records
MaxLedger == 2

\* the environment edits the source tree at most MaxEdits times
MaxEdits == 1

\* at most MaxFaults injected failures (backend exits, filesystem errors) per call
MaxFaults == 1
MaxPasses == 2      \* sync passes over the tree with a control directory

----------------------------------------------------------------------------
(* Paths and file contents *)

PathB == <<"build", "out.log">>
PathG == <<".gitignore">>

\* the relative paths a file can have in the source tree
Paths == {PathB, PathG}

NoFile == [data |-> "none", mtime |-> 0]

\* contents a file at path p can have
Contents(p) ==
    IF p = PathG THEN {"rules_none", "rules_dir", "rules_anchored"}
    ELSE {"c10", "c20"}

\* st_size of a file with this content
Size(data) ==
    CASE data = "c10" -> 10
      [] data = "c20" -> 20
      [] data = "rules_none" -> 0
      [] data = "rules_dir" -> 7
      [] data = "rules_anchored" -> 7
      [] OTHER -> 0

\* the non-empty, non-comment lines of a rule file with this content, each
\* line given by its "/"-separated segments: "build/", "/build", "out.log"
\* and "*.log"
RuleLines(data) ==
    CASE data = "rules_dir" -> {<<"build", "">>}
      [] data = "rules_anchored" -> {<<"", "build">>}
      [] data = "rules_name" -> {<<"out.log">>}
      [] data = "rules_star" -> {<<"*.log">>}
      [] data = "rules_negate" -> {<<"!.git", "">>}
      [] OTHER -> {}

Files(p) == [data : Contents(p), mtime : 1..MaxTime]

Present(tree) == {p \in DOMAIN tree : tree[p] # NoFile}

----------------------------------------------------------------------------
(* GitIgnoreParser *)

\* a local name: F applied to the value v
With(v, F(_)) == F(v)

Last(s) == s[Len(s)]
Front(s) == SubSeq(s, 1, Len(s) - 1)
Parts(path) == {path[i] : i \in 1..Len(path)}

\* str.rstrip("/") on a pattern given by its segments
RECURSIVE RStripSlash(_)
RStripSlash(pat) ==
    IF Len(pat) > 1 /\ Last(pat) = "" THEN RStripSlash(Front(pat))
    ELSE pat

\* path_str.endswith("/" + pattern)
EndsWithSlashPattern(path, pat) ==
    /\ Len(path) > Len(pat)
    /\ SubSeq(path, Len(path) - Len(pat) + 1, Len(path)) = pat

HasStar(pat) == \E i \in 1..Len(pat) : pat[i] \in {"*.log"}

\* fnmatch.fnmatch(name, glob) for the globs of the model ("*.log")
ExtLog(name) == name \in {"out.log"}

FnMatchPath(path, pat) ==
    /\ ExtLog(Last(path))
    /\ Len(path) >= Len(pat)
    /\ \A i \in 1..(Len(pat) - 1) : path[i] = pat[i]
    /\ Last(pat) = "*.log"

FnMatchName(name, pat) == Len(pat) = 1 /\ pat[1] = "*.log" /\ ExtLog(name)

\* one iteration of the loop of should_ignore: does this pattern match
PatternMatches(pat, path) ==
    IF Last(pat) = ""
    THEN LET dir_pattern == RStripSlash(pat)
         IN  Len(dir_pattern) = 1 /\ dir_pattern[1] \in Parts(path)
    ELSE IF pat = path THEN TRUE
    ELSE IF HasStar(pat)
    THEN FnMatchPath(path, pat) \/ FnMatchName(Last(path), pat)
    ELSE \/ Len(pat) = 1 /\ pat[1] \in Parts(path)
         \/ EndsWithSlashPattern(path, pat)
         \/ Len(pat) = 1 /\ Last(path) = pat[1]

should_ignore(pats, rel_path) == \E pat \in pats : PatternMatches(pat, rel_path)

\* the files rglob(".gitignore") finds
IsRuleFile(path) == Last(path) = ".gitignore"

\* _parse_gitignore: the lines of one rule file, qualified by its directory
ParseGitignore(tree, gitignore_path) ==
    LET rel_dir == Front(gitignore_path)
    IN  {rel_dir \o line : line \in RuleLines(tree[gitignore_path].data)}

\* faulty variant of LoadPatterns: the built-in rules are not seeded
LoadPatternsUnseeded(tree) ==
    UNION {ParseGitignore(tree, g) : g \in {p \in Present(tree) : IsRuleFile(p)}}

\* _load_patterns: the built-in rules and every rule file under the source
LoadPatterns(tree) ==
    {<<".git", "">>, <<".git">>}
        \cup UNION {ParseGitignore(tree, g) :
                      g \in {p \in Present(tree) : IsRuleFile(p)}}

----------------------------------------------------------------------------
(* sync_files *)

NoFault == [at |-> <<>>, before |-> {}]

\* faulty variant of Eligible: the ignore rules are not applied
EligibleAll(tree, pats) == Present(tree)

\* the non-ignored files of the source tree under a rule set
Eligible(tree, pats) == {p \in Present(tree) : ~should_ignore(pats, p)}

\* a filesystem error (stat or copy raising OSError) on the file `at`, met
\* after the walk has handled the files in `before` (the walk order is the
\* directory order, which the code does not choose)
SyncFaultInputs ==
    {NoFault} \cup UNION {{[at |-> p, before |-> d] : d \in SUBSET (Paths \ {p})} :
                           p \in Paths}

\* faulty variants of needs_copy: a file is copied only when the mirror lacks
\* it; every file is copied on every pass
needs_copy_missing(source_file, dest_file) == dest_file = NoFile

needs_copy_always(source_file, dest_file) == TRUE

\* faulty variant of needs_copy: sizes are not compared
needs_copy_newer(source_file, dest_file) ==
    dest_file = NoFile \/ dest_file.mtime < source_file.mtime

needs_copy(source_file, dest_file) ==
    ~(/\ dest_file # NoFile
      /\ source_file.mtime <= dest_file.mtime
      /\ Size(source_file.data) = Size(dest_file.data))

\* the files the walk copies when it visits the files in `visited`
Copied(tree, mir, visited) == {p \in visited : needs_copy(tree[p], mir[p])}

\* faulty variant of Stale: nothing is deleted from the mirror
StaleNone(mir, synced_files) == {}

\* the files of the mirror the walk did not see as non-ignored source files
Stale(mir, synced_files) == Present(mir) \ synced_files

\* the body of sync_files with the rule set pats: the new mirror, the count
\* returned, and whether the pass raised instead of returning.  A fault on a
\* file the walk does not visit as non-ignored has no effect.
SyncPass(tree, mir, pats, fault) ==
    With(Eligible(tree, pats), LAMBDA synced_files :
    With(fault # NoFault /\ fault.at \in synced_files, LAMBDA raised :
    With(Copied(tree, mir, IF raised THEN fault.before \cap synced_files
                           ELSE synced_files), LAMBDA copied :
    With(IF raised THEN {} ELSE Stale(mir, synced_files), LAMBDA removed :
        [mirror |-> [p \in DOMAIN mir |->
                        IF p \in copied THEN tree[p]
                        ELSE IF p \in removed THEN NoFile
                        ELSE mir[p]],
         files_synced |-> Cardinality(copied),
         raised |-> raised]))))

\* the ignore_parser property: the cached parser, built on first use
ignore_parser(w, tree) ==
    IF w.parserBuilt THEN w.patterns ELSE LoadPatterns(tree)

\* sync_files on the project state w: the parser is built when the walk
\* meets its first file
sync_files(w, tree, fault) ==
    With(ignore_parser(w, tree), LAMBDA pats :
    With(SyncPass(tree, w.mirror, pats, fault), LAMBDA r :
    With(w.parserBuilt \/ Present(tree) # {}, LAMBDA built :
        [w |-> [w EXCEPT !.mirror = r.mirror,
                         !.patterns = IF built THEN pats ELSE w.patterns,
                         !.parserBuilt = built],
         files_synced |-> r.files_synced,
         raised |-> r.raised])))

----------------------------------------------------------------------------
(* The managed project directory and the git backend *)

NoCfg == [exists |-> FALSE, project_hash |-> "", created_at |-> 0, remote_url |-> ""]

NoLedger == [kind |-> "missing", snapshots |-> <<>>]

\* a tree of the backend: the content of every tracked file of the managed
\* project directory (files/, ledgit.json, .gitignore, commits.json)
EmptyTree ==
    [files |-> [p \in Paths |-> "none"], cfg |-> NoCfg, gi |-> FALSE,
     ledger |-> NoLedger]

ThisHash == "this"
OtherHash == "other"

\* the commands _run_git is called with
InitCmds == {"init", "init_add", "init_commit"}
SnapCmds == {"add", "status", "commit", "rev_parse"}
RemoteCmds == {"get_url", "set_url", "remote_add"}

\* _run_git: the command exits 0.  It exits non-zero when the failure is
\* injected or when the managed directory holds no repository.
GitOk(w, cmd, failing) == w.gitDir /\ cmd \notin failing

\* git's own reading of the rule file mirrored at files/.gitignore: a rule
\* "d/" names a directory d at any depth, a rule "/d" the entry d of files/
GitRuleMatches(line, path) ==
    IF Last(line) = ""
    THEN Len(line) = 2 /\ line[1] \in Parts(Front(path))
    ELSE IF line[1] = ""
    THEN Len(line) = 2 /\ path[1] = line[2]
    ELSE Len(line) = 1 /\ line[1] \in Parts(path)

GitIgnored(w, path) ==
    \E line \in RuleLines(w.mirror[PathG].data) : GitRuleMatches(line, path)

\* the tree `git add .` stages: every tracked path follows the working
\* tree, an untracked path is added unless git ignores it
WorkTree(w) ==
    [files |-> [p \in Paths |->
                   IF w.index.files[p] # "none" \/ ~GitIgnored(w, p)
                   THEN w.mirror[p].data ELSE "none"],
     cfg |-> w.cfg, gi |-> w.gi, ledger |-> w.ledger]

\* the paths on which two trees differ
TreeDiff(t1, t2) ==
    {p \in Paths : t1.files[p] # t2.files[p]}
        \cup (IF t1.cfg # t2.cfg THEN {<<"ledgit.json">>} ELSE {})
        \cup (IF t1.gi # t2.gi THEN {<<".gitignore">>} ELSE {})
        \cup (IF t1.ledger # t2.ledger THEN {<<"commits.json">>} ELSE {})

\* the lines of `git status --porcelain`: one per path staged or changed in
\* the working tree (rename detection and the folding of an untracked
\* directory into one line are not modelled)
StatusLines(w) ==
    With(WorkTree(w), LAMBDA work :
        TreeDiff(w.headTree, w.index) \cup TreeDiff(w.index, work))

git_add(w, ok) == IF ok THEN [w EXCEPT !.index = WorkTree(w)] ELSE w

\* faulty variant of git_commit: no commit is made
git_commit_noop(w, ok) == w

git_commit(w, ok) ==
    IF ok THEN [w EXCEPT !.head = w.head + 1, !.headTree = w.index] ELSE w

\* the project state before initialisation, a fresh manager in hand
NoProject ==
    [mirror |-> [p \in Paths |-> NoFile],
     gitDir |-> FALSE, gi |-> FALSE, cfg |-> NoCfg,
     index |-> EmptyTree, head |-> 0, headTree |-> EmptyTree,
     remote |-> "", registry |-> <<>>, registryValid |-> TRUE, ledger |-> NoLedger,
     cfgCache |-> NoCfg, patterns |-> {}, parserBuilt |-> FALSE]

\* the managed project directory exists (initialize_project and
\* save_commit_record create it)
ProjectDirExists(w) == w.gi \/ w.cfg.exists \/ w.ledger.kind # "missing"

\* LedgitManager.__init__: a new manager holds no cached config and no parser
NewManager(w) ==
    [w EXCEPT !.cfgCache = NoCfg, !.patterns = {}, !.parserBuilt = FALSE]

Manager(w, fresh) == IF fresh THEN NewManager(w) ELSE w

\* load_config
load_config(w) ==
    IF w.cfgCache.exists THEN w.cfgCache
    ELSE IF ~w.cfg.exists THEN NoCfg
    ELSE w.cfg

\* the index _update_global_index starts from: the "projects" list of the
\* index file, or the empty list when the file does not hold JSON
LoadIndex(w) == IF w.registryValid THEN w.registry ELSE <<>>

\* faulty variant of register: the entry of the project is not removed first
register_append(projects, project_hash, has_config) ==
    IF has_config THEN Append(projects, project_hash) ELSE projects

\* the list _update_global_index writes for the project project_hash: the
\* entries of the other projects, then the entry of this one if it has a
\* configuration
register(projects, project_hash, has_config) ==
    With(SelectSeq(projects, LAMBDA h : h # project_hash), LAMBDA kept :
        IF has_config THEN Append(kept, project_hash) ELSE kept)

\* _update_global_index of the manager of this project
update_global_index(w) ==
    With(load_config(w), LAMBDA config :
        [w EXCEPT !.registry = register(LoadIndex(w), ThisHash, config.exists),
                  !.registryValid = TRUE,
                  !.cfgCache = config])

----------------------------------------------------------------------------
(* Injected failures *)

NoPlan == [git |-> {}, sync |-> NoFault]

FaultCount(plan) ==
    Cardinality(plan.git) + (IF plan.sync = NoFault THEN 0 ELSE 1)

\* the failures a create_snapshot call can meet: backend commands that exit
\* non-zero, and a file that cannot be read while the call runs (the first
\* sync pass of the call that visits it raises)
SnapPlans ==
    {plan \in [git : SUBSET (InitCmds \cup SnapCmds), sync : SyncFaultInputs] :
        FaultCount(plan) <= MaxFaults}

SyncPlans ==
    {plan \in [git : {{}}, sync : SyncFaultInputs] : FaultCount(plan) <= MaxFaults}

RemotePlans ==
    {plan \in [git : SUBSET RemoteCmds, sync : {NoFault}] :
        FaultCount(plan) <= MaxFaults}

PushPlans ==
    {plan \in [git : SUBSET {"push"}, sync : {NoFault}] :
        FaultCount(plan) <= MaxFaults}

----------------------------------------------------------------------------
(* initialize_project and create_snapshot *)

Events == {"after_agent_stop"}
NoMessage == ""
Messages == {NoMessage}

\* the arguments of create_snapshot (the session id only enters the commit
\* message, which the model does not keep)
StepIds == {1}
Timestamps == {1}
Requests == [step_id : StepIds, event : Events, message : Messages]

NoRecord ==
    [step_id |-> 0, event |-> "", commit_sha |-> 0, timestamp |-> 0,
     message |-> "", files_changed |-> 0]

\* CommitRecord(...); commit_sha 0 stands for the empty string
CommitRecord(step_id, event, commit_sha, timestamp, message, files_changed) ==
    [step_id |-> step_id, event |-> event, commit_sha |-> commit_sha,
     timestamp |-> timestamp, message |-> message, files_changed |-> files_changed]

\* initialize_project: the new project state, whether the call raised, and
\* the backend commands that exited non-zero
initialize_project(w, tree, plan, timestamp) ==
    With("init" \notin plan.git, LAMBDA init_ok :
    With([exists |-> TRUE, project_hash |-> ThisHash, created_at |-> timestamp,
          remote_url |-> ""], LAMBDA config :
    With(IF ~w.gitDir THEN [w EXCEPT !.gitDir = init_ok, !.gi = TRUE] ELSE w, LAMBDA w1 :
    With(update_global_index([w1 EXCEPT !.cfg = config, !.cfgCache = config]), LAMBDA w3 :
    With(sync_files(w3, tree, plan.sync), LAMBDA s :
    With(GitOk(s.w, "init_add", plan.git), LAMBDA add_ok :
    With(git_add(s.w, add_ok), LAMBDA w4 :
    \* commit --allow-empty
    With(GitOk(w4, "init_commit", plan.git), LAMBDA commit_ok :
    With(IF ~w.gitDir /\ ~init_ok THEN {"init"} ELSE {}, LAMBDA init_failed :
        IF s.raised THEN [w |-> s.w, raised |-> TRUE, failed |-> init_failed]
        ELSE [w |-> git_commit(w4, commit_ok), raised |-> FALSE,
              failed |-> init_failed
                           \cup (IF add_ok THEN {} ELSE {"init_add"})
                           \cup (IF commit_ok THEN {} ELSE {"init_commit"})])))))))))

\* faulty variant of project_exists: the configuration file is never found
project_never_exists(w) == FALSE

project_exists(w) == w.cfg.exists

Result(w, kind, rec, failed) == [w |-> w, kind |-> kind, rec |-> rec, failed |-> failed]

\* faulty variant of snapshot_no_changes: no record when nothing changed
snapshot_no_changes_none(w, req, plan, timestamp) == Result(w, "none", NoRecord, {})

\* the branch of create_snapshot taken when status reports nothing
snapshot_no_changes(w, req, plan, timestamp) ==
    IF GitOk(w, "rev_parse", plan.git) /\ w.head > 0
    THEN Result(w, "record",
                CommitRecord(req.step_id, req.event, w.head, timestamp,
                             "No changes", 0), {})
    ELSE Result(w, "none", NoRecord, {"rev_parse"})

\* len([l for l in status.stdout.strip().split("\n") if l])
changed_files(status) == Cardinality(status)

\* faulty variant of snapshot_commit: the exit code of the commit is not read
snapshot_commit_unchecked(w, req, plan, timestamp, status) ==
    Result(w, "record",
           CommitRecord(req.step_id, req.event, w.head, timestamp, req.message,
                        changed_files(status)),
           IF GitOk(w, "commit", plan.git) THEN {} ELSE {"commit"})

\* the branch of create_snapshot taken when status reports changes
snapshot_commit(w, req, plan, timestamp, status) ==
    With(IF req.message = NoMessage THEN "default" ELSE req.message, LAMBDA message :
    \* git commit exits non-zero when nothing is staged
    With(GitOk(w, "commit", plan.git) /\ w.index # w.headTree, LAMBDA commit_ok :
    With(git_commit(w, commit_ok), LAMBDA w1 :
    With(GitOk(w1, "rev_parse", plan.git), LAMBDA head_ok :
        IF ~commit_ok THEN Result(w, "none", NoRecord, {"commit"})
        ELSE Result(w1, "record",
                    CommitRecord(req.step_id, req.event,
                                 IF head_ok THEN w1.head ELSE 0, timestamp, message,
                                 changed_files(status)),
                    IF head_ok THEN {} ELSE {"rev_parse"})))))

\* create_snapshot: the new project state, what the call returns (kind
\* "record" with the CommitRecord, "none" for None, "raised" when an
\* exception leaves the call) and the backend commands that exited non-zero
create_snapshot(w, tree, req, plan, timestamp) ==
    With(IF ~project_exists(w)
         THEN initialize_project(w, tree, plan, timestamp)
         ELSE [w |-> w, raised |-> FALSE, failed |-> {}], LAMBDA i :
    With(sync_files(i.w, tree, plan.sync), LAMBDA s :
    With(GitOk(s.w, "add", plan.git), LAMBDA add_ok :
    With(git_add(s.w, add_ok), LAMBDA w1 :
    With(GitOk(w1, "status", plan.git), LAMBDA status_ok :
    With(IF status_ok THEN StatusLines(w1) ELSE {}, LAMBDA status :
    With(IF status = {} THEN snapshot_no_changes(w1, req, plan, timestamp)
         ELSE snapshot_commit(w1, req, plan, timestamp, status), LAMBDA r :
        IF i.raised THEN Result(i.w, "raised", NoRecord, i.failed)
        ELSE IF s.raised THEN Result(s.w, "raised", NoRecord, i.failed)
        ELSE [r EXCEPT !.failed = @ \cup i.failed
                                    \cup (IF add_ok THEN {} ELSE {"add"})
                                    \cup (IF status_ok THEN {} ELSE {"status"})])))))))

----------------------------------------------------------------------------
(* Commit ledger *)

to_dict(record) ==
    [step_id |-> record.step_id, event |-> record.event,
     commit_sha |-> record.commit_sha, timestamp |-> record.timestamp,
     message |-> record.message, files_changed |-> record.files_changed]

from_dict(data) ==
    CommitRecord(data.step_id, data.event, data.commit_sha, data.timestamp,
                 data.message, data.files_changed)

\* faulty variant of save_commit_record: the file is overwritten
save_commit_record_overwrite(file, record) ==
    [kind |-> "list", snapshots |-> <<to_dict(record)>>]

\* faulty variant of save_commit_record: JSONDecodeError is not caught, the
\* call raises and leaves the file as it is
save_commit_record_uncaught(file, record) ==
    IF file.kind = "corrupt" THEN file
    ELSE [kind |-> "list",
          snapshots |-> Append(IF file.kind = "list" THEN file.snapshots ELSE <<>>,
                               to_dict(record))]

\* save_commit_record: a missing file or one json.load rejects is an empty list
save_commit_record(file, record) ==
    LET commits == IF file.kind = "list" THEN file.snapshots ELSE <<>>
    IN  [kind |-> "list", snapshots |-> Append(commits, to_dict(record))]

\* load_commit_records
load_commit_records(file) ==
    IF file.kind = "list"
    THEN [i \in 1..Len(file.snapshots) |-> from_dict(file.snapshots[i])]
    ELSE <<>>

----------------------------------------------------------------------------
(* Remote configuration *)

Urls == {"url1"}

\* set_remote: raises when the managed directory does not exist (the
\* subprocess cannot be started there), returns True otherwise
set_remote(w, remote_url, plan) ==
    With(GitOk(w, "get_url", plan.git) /\ w.remote # "", LAMBDA exists :
    With(GitOk(w, "set_url", plan.git), LAMBDA set_ok :
    \* git remote add exits non-zero when the remote exists
    With(GitOk(w, "remote_add", plan.git) /\ w.remote = "", LAMBDA add_ok :
    With(IF (exists /\ set_ok) \/ (~exists /\ add_ok)
         THEN [w EXCEPT !.remote = remote_url] ELSE w, LAMBDA w1 :
    With(load_config(w1), LAMBDA config :
    With([config EXCEPT !.remote_url = remote_url], LAMBDA saved :
        IF ~ProjectDirExists(w) THEN Result(w, "raised", NoRecord, {})
        ELSE Result(IF config.exists
                    THEN [w1 EXCEPT !.cfg = saved, !.cfgCache = saved]
                    ELSE w1,
                    "true", NoRecord,
                    \* get-url exits non-zero to say that there is no remote:
                    \* it failed when it does so though there is one
                    IF exists THEN (IF set_ok THEN {} ELSE {"set_url"})
                    ELSE (IF w.remote # "" THEN {"get_url"} ELSE {})
                             \cup (IF add_ok THEN {} ELSE {"remote_add"}))))))))

\* push: returncode == 0
push(w, plan) ==
    IF ~ProjectDirExists(w) THEN Result(w, "raised", NoRecord, {})
    ELSE IF GitOk(w, "push", plan.git) /\ w.remote # "" /\ w.head > 0
    THEN Result(w, "true", NoRecord, {})
    ELSE Result(w, "false", NoRecord, {"push"})

----------------------------------------------------------------------------
(* History: the last operation, and the operation it follows *)

\* op      the operation: "edit", "sync", "snap", "save", "set_remote", "push"
\* kind    what the call returned: "record", "none", "count", "true", "false",
\*         "returned", or "raised"; for an edit, the kind of edit
\* n       the count sync_files returned
\* rec     the CommitRecord create_snapshot returned
\* clean   no failure was injected into the call
\* fault   the filesystem fault the call met: the injected fault, when it is
\*         on a file the walk visits as non-ignored
\* failed  the backend commands that exited non-zero in the call
\* inited  the call ran initialize_project
\* after   what the call follows (see After)
\* same    the call used the rule set of the pass before it
\* path    the file edited by the edit, or by the edit the call follows
\* hash    the project_hash the call registered in the global index
\* bsha    for an edit, the commit_sha the snapshot before it returned
NoOp ==
    [op |-> "none", kind |-> "none", n |-> 0, rec |-> NoRecord, clean |-> TRUE,
     fault |-> NoFault, failed |-> {}, inited |-> FALSE, after |-> "none", same |-> FALSE,
     path |-> <<>>, bsha |-> 0, hash |-> ""]

\* the call returned normally and met no injected failure
Ok(h) == h.clean /\ h.kind \in {"record", "count"}

\* the kind of a source edit: "grow" changes a file the backend tracks to
\* a new size and a newer mtime, "delete" removes a mirrored file
EditKind(p, f) ==
    IF /\ src[p] # NoFile /\ f # NoFile
       /\ Size(f.data) # Size(src[p].data) /\ f.mtime > src[p].mtime
       /\ proj.headTree.files[p] # "none"
    THEN "grow"
    ELSE IF f = NoFile /\ proj.mirror[p] # NoFile THEN "delete"
    ELSE "other"

\* the fault of the plan, if the walk of the call that led to w met it
FaultMet(w, plan) ==
    IF plan.sync # NoFault /\ plan.sync.at \in Eligible(src, w.patterns)
    THEN plan.sync ELSE NoFault

\* the rule set of this pass is the rule set of the pass before
SameRules(fresh) ==
    \/ Present(src) = {}
    \/ proj.parserBuilt /\ ignore_parser(Manager(proj, fresh), src) = proj.patterns

\* what a call of `op` that met no failure follows: "same", a call of the
\* same operation that returned and met no failure, with no source edit
\* between; "grow", "delete", "other": such a call and then one source edit
\* of that kind
After(op, plan) ==
    IF plan # NoPlan THEN "none"
    ELSE IF last.op = op /\ Ok(last) THEN "same"
    ELSE IF last.op = "edit" /\ last.after = op THEN last.kind
    ELSE "none"

----------------------------------------------------------------------------
(* Concurrent invocations of create_snapshot: each runs in a process of its
   own, through a manager of its own, on an initialised project.  The code
   takes no lock, so the steps of two invocations interleave freely; one
   step is one sync pass or one backend command. *)

Procs == {1, 2}

\* pc      "idle", "synced" (sync_files returned), "staged" (git add returned),
\*         "checked" (git status returned), "done" (create_snapshot returned)
\* mine    the content of the mirror when the sync pass of the invocation returned
\* status  the lines git status printed for the invocation
\* kind    what the invocation returned
\* tree    the content of files/ in the head commit when the invocation returned
\* For an invocation of save_commit_record:
\* pc      "idle", "loaded" (the existing commits were read), "opened"
\*         (commits.json was opened for writing, which empties it), "saved"
\* rec     the record to append
\* commits the list the invocation read, the record appended
Idle ==
    [pc |-> "idle", mine |-> [p \in Paths |-> "none"], status |-> {},
     kind |-> "none", rec |-> NoRecord, tree |-> [p \in Paths |-> "none"],
     commits |-> <<>>]

\* commits.json as open(commits_file, "w") leaves it until json.dump writes:
\* an empty file, which json.load rejects
Truncated == [kind |-> "corrupt", snapshots |-> <<>>]

\* the invocation is between the start of its sync and the end of its commit
InSection(i) == procs[i].pc \in {"synced", "staged", "checked"}

\* no query made yet
NoProbe == [kind |-> "none"]

----------------------------------------------------------------------------
(* Queries to the ignore matcher: a source tree that holds one rule file, at
   the root or in the subdirectory sub/, and one other file *)

RuleFiles == {<<".gitignore">>, <<"sub", ".gitignore">>}

RuleContents == {"rules_dir", "rules_anchored", "rules_name", "rules_star"}

QueryFiles ==
    {<<"out.log">>, <<"build", "out.log">>,
     <<"sub", "out.log">>, <<"sub", "build", "out.log">>,
     <<"x", "sub", "out.log">>, <<"x", "build", "out.log">>}

\* the source tree of a query
QueryTree(gitignore_path, data, path) ==
    [q \in RuleFiles \cup QueryFiles |->
        IF q = gitignore_path THEN [data |-> data, mtime |-> 1]
        ELSE IF q = path THEN [data |-> "c10", mtime |-> 1]
        ELSE NoFile]

\* path is a file below the directory dir
Under(dir, path) ==
    Len(path) > Len(dir) /\ SubSeq(path, 1, Len(dir)) = dir

\* what a new GitIgnoreParser answers for the file of the query tree, and
\* the files in the mirror after a sync_files pass of a new manager on it
MatchResult(gitignore_path, data, path) ==
    With(QueryTree(gitignore_path, data, path), LAMBDA tree :
    With(LoadPatterns(tree), LAMBDA pats :
        [kind |-> "match",
         rel_dir |-> Front(gitignore_path),
         rule |-> data,
         path |-> path,
         ignored |-> should_ignore(pats, path),
         mirrored |-> Present(SyncPass(tree, [q \in DOMAIN tree |-> NoFile],
                                       pats, NoFault).mirror)]))

----------------------------------------------------------------------------
(* A source tree that holds a backend control directory: sync_files passes
   of one manager or of new ones, the tree being edited between passes *)

ControlPaths ==
    {<<".git", "config">>, <<"sub", ".git", "HEAD">>, <<"a.txt">>, <<".gitignore">>}

ControlContents(p) ==
    IF p = <<".gitignore">> THEN {"rules_none", "rules_negate", "rules_name"}
    ELSE {"c10"}

\* the tree and the manager before the first edit: nothing in the source,
\* nothing in the mirror, no parser built
NoControl ==
    [kind |-> "control",
     tree |-> [p \in ControlPaths |-> NoFile],
     w |-> [mirror |-> [p \in ControlPaths |-> NoFile],
            patterns |-> {}, parserBuilt |-> FALSE],
     passes |-> 0]

Control == IF probe.kind = "control" THEN probe ELSE NoControl

----------------------------------------------------------------------------
(* Project identity: Path(source_path).resolve(), the hash and the managed
   directory derived from it.  A path is the sequence of its segments below
   the root. *)

\* the filesystem the resolver looks at: one directory and one symlink to it
Dirs == {<<"repo">>}
LinkTarget(path) == IF path = <<"link">> THEN <<"repo">> ELSE path

\* the spellings a caller passes: the directory, a symlink to it, a spelling
\* with a parent segment, and a path that does not exist
SourcePaths == {<<"repo">>, <<"link">>, <<"repo", "..", "repo">>, <<"gone">>}

\* ".." segments removed together with the segment before them
RECURSIVE Collapse(_, _)
Collapse(done, rest) ==
    IF rest = <<>> THEN done
    ELSE IF rest[1] = ".."
    THEN Collapse(IF done = <<>> THEN <<>> ELSE Front(done), Tail(rest))
    ELSE Collapse(Append(done, rest[1]), Tail(rest))

\* Path(p).resolve(), strict=False: symlinks followed, ".." removed, and a
\* path that does not exist returned as it is spelled, without an error
Resolve(path) == LinkTarget(Collapse(<<>>, path))

PathExists(path) == Resolve(path) \in Dirs

\* hashlib.sha256(canonical_path.encode()).hexdigest()[:12]
compute_project_hash(project_path) == <<"sha256">> \o Resolve(project_path)

\* Path(project_path).name or "unknown"
get_project_name(project_path) ==
    IF project_path = <<>> THEN "unknown" ELSE Last(project_path)

\* LedgitManager.__init__: the identity fields of the new manager
LedgitManagerInit(source_path) ==
    With(Resolve(source_path), LAMBDA resolved :
        [raised |-> FALSE,
         source_path |-> resolved,
         project_hash |-> compute_project_hash(resolved),
         project_name |-> get_project_name(resolved),
         project_dir |-> <<"projects">> \o compute_project_hash(resolved)])

----------------------------------------------------------------------------
(* Actions *)

Init ==
    /\ src \in {t \in [Paths -> UNION {Files(p) : p \in Paths} \cup {NoFile}] :
                  \A p \in Paths :
                     \/ t[p] = NoFile
                     \/ t[p] \in Files(p) /\ t[p].mtime = MaxTime - 1}
    /\ proj = NoProject
    /\ edits = 0
    /\ saves = <<>>
    /\ last = NoOp
    /\ procs = [i \in Procs |-> Idle]
    /\ probe = NoProbe

\* the environment writes, creates or deletes one source file
EditSource(p, f) ==
    /\ f # src[p]
    /\ edits < MaxEdits
    /\ edits' = edits + 1
    /\ src' = [src EXCEPT ![p] = f]
    /\ last' = [NoOp EXCEPT !.op = "edit",
                            !.kind = EditKind(p, f),
                            !.after = IF Ok(last) THEN last.op ELSE "none",
                            !.path = p,
                            !.bsha = last.rec.commit_sha]
    /\ UNCHANGED <<proj, saves, procs, probe>>

\* LedgitManager(source_path).sync_files(), or sync_files() on the manager in hand
SyncFiles(fresh, plan) ==
    \E r \in {sync_files(Manager(proj, fresh), src, plan.sync)} :
        /\ proj' = r.w
        /\ last' = [NoOp EXCEPT !.op = "sync",
                                !.kind = IF r.raised THEN "raised" ELSE "count",
                                !.n = r.files_synced,
                                !.clean = plan = NoPlan,
                                !.fault = FaultMet(r.w, plan),
                                !.after = After("sync", plan),
                                !.same = SameRules(fresh),
                                !.path = IF last.op = "edit" THEN last.path ELSE <<>>]
        /\ UNCHANGED <<src, edits, saves, procs, probe>>

\* create_snapshot(session_id, step_id, event, message)
CreateSnapshot(fresh, req, plan, timestamp) ==
    /\ proj.head + 2 <= MaxCommits
    /\ \E r \in {create_snapshot(Manager(proj, fresh), src, req, plan, timestamp)} :
        /\ proj' = r.w
        /\ last' = [NoOp EXCEPT !.op = "snap",
                                !.kind = r.kind,
                                !.rec = r.rec,
                                !.clean = plan = NoPlan,
                                !.fault = FaultMet(r.w, plan),
                                !.failed = r.failed,
                                !.inited = ~project_exists(proj),
                                !.after = After("snap", plan),
                                !.same = SameRules(fresh),
                                !.path = IF last.op = "edit" THEN last.path ELSE <<>>,
                                !.hash = IF project_exists(proj) THEN "" ELSE ThisHash]
        /\ UNCHANGED <<src, edits, saves, procs, probe>>

\* initialize_project(), called on its own
InitializeProject(fresh, timestamp) ==
    /\ proj.head < MaxCommits
    /\ \E r \in {initialize_project(Manager(proj, fresh), src, NoPlan, timestamp)} :
        /\ proj' = r.w
        /\ last' = [NoOp EXCEPT !.op = "init",
                                !.kind = IF r.raised THEN "raised" ELSE "returned",
                                !.inited = TRUE,
                                !.hash = ThisHash]
    /\ UNCHANGED <<src, edits, saves, procs, probe>>

\* initialize_project() of the manager of another source path in the same
\* managed root: its _update_global_index
RegisterOther ==
    /\ proj' = [proj EXCEPT !.registry = register(LoadIndex(proj), OtherHash, TRUE),
                            !.registryValid = TRUE]
    /\ last' = [NoOp EXCEPT !.op = "init", !.kind = "returned", !.hash = OtherHash]
    /\ UNCHANGED <<src, edits, saves, procs, probe>>

\* the index file is left without valid JSON (a write cut short)
DamageIndex ==
    /\ proj.registryValid
    /\ proj' = [proj EXCEPT !.registryValid = FALSE]
    /\ last' = [NoOp EXCEPT !.op = "damage"]
    /\ UNCHANGED <<src, edits, saves, procs, probe>>

\* DEFAULT_LEDGIT_DIR = Path.home() / ".claude" / "ledgit"
DEFAULT_LEDGIT_DIR == <<"home", ".claude", "ledgit">>

\* the values of the environment variable LEDGIT_DIR: unset, or a directory
EnvDirs == {<<>>, <<"var", "ledgit">>}

get_ledgit_dir(env_dir) == IF env_dir # <<>> THEN env_dir ELSE DEFAULT_LEDGIT_DIR

\* the source directories of the layout queries: a repository in the home
\* directory, and the home directory itself
LayoutPaths == {<<"home", "repo">>, <<"home">>}

\* the absolute paths that initialize_project, sync_files, create_snapshot,
\* save_commit_record and set_remote of a manager for source_path write,
\* the source tree holding the file a.txt
ManagedWrites(source_path, env_dir) ==
    With(get_ledgit_dir(env_dir), LAMBDA ledgit_dir :
    With(ledgit_dir \o LedgitManagerInit(source_path).project_dir, LAMBDA project_dir :
    With([NoControl.tree EXCEPT ![<<"a.txt">>] = [data |-> "c10", mtime |-> 1]], LAMBDA tree :
        {ledgit_dir \o <<"index.json">>,
         project_dir \o <<"ledgit.json">>,
         project_dir \o <<".gitignore">>,
         project_dir \o <<".git", "HEAD">>,
         project_dir \o <<"trajectories", "session", "commits.json">>}
            \cup {project_dir \o <<"files">> \o rel_path :
                    rel_path \in Eligible(tree, LoadPatterns(tree))})))

\* a manager for source_path under LEDGIT_DIR = env_dir, and what its
\* operations write
Layout(source_path, env_dir) ==
    /\ probe' = [kind |-> "layout",
                 source_path |-> LedgitManagerInit(source_path).source_path,
                 ledgit_dir |-> get_ledgit_dir(env_dir),
                 written |-> ManagedWrites(source_path, env_dir)]
    /\ UNCHANGED <<src, proj, edits, saves, last, procs>>

\* LedgitManager(source_path)
Construct(source_path) ==
    /\ probe' = [kind |-> "manager", arg |-> source_path,
                 m |-> LedgitManagerInit(source_path)]
    /\ UNCHANGED <<src, proj, edits, saves, last, procs>>

\* GitIgnoreParser(source_path).should_ignore(path) and sync_files() on a
\* source tree with one rule file
Match(gitignore_path, data, path) ==
    /\ probe' = MatchResult(gitignore_path, data, path)
    /\ UNCHANGED <<src, proj, edits, saves, last, procs>>

\* the user writes or removes a file of the tree with the control directory
ControlEdit(p, f) ==
    /\ Control.tree[p] # f
    /\ probe' = [Control EXCEPT !.tree[p] = f]
    /\ UNCHANGED <<src, proj, edits, saves, last, procs>>

\* sync_files() on the tree with the control directory, through the manager
\* of the pass before or a new one
ControlSync(fresh) ==
    /\ Control.passes < MaxPasses
    /\ \E w \in {IF fresh THEN [Control.w EXCEPT !.patterns = {}, !.parserBuilt = FALSE]
                 ELSE Control.w} :
         probe' = [Control EXCEPT !.w = sync_files(w, Control.tree, NoFault).w,
                                  !.passes = Control.passes + 1]
    /\ UNCHANGED <<src, proj, edits, saves, last, procs>>

\* save_commit_record(session_folder, record)
SaveCommitRecord(record) ==
    /\ Len(saves) < MaxLedger
    /\ proj' = [proj EXCEPT !.ledger = save_commit_record(proj.ledger, record)]
    /\ saves' = Append(saves, record)
    /\ last' = [NoOp EXCEPT !.op = "save", !.kind = "returned"]
    /\ UNCHANGED <<src, edits, procs, probe>>

\* load_commit_records(session_folder)
LoadCommitRecords ==
    /\ last' = [NoOp EXCEPT !.op = "load", !.kind = "returned",
                            !.n = Len(load_commit_records(proj.ledger))]
    /\ UNCHANGED <<src, proj, edits, saves, procs, probe>>

\* a save_commit_record whose process dies between open(commits_file, "w")
\* and the end of json.dump: commits.json is left empty or cut short
CutShortSave ==
    /\ proj.ledger.kind # "corrupt"
    /\ proj' = [proj EXCEPT !.ledger = Truncated]
    /\ last' = [NoOp EXCEPT !.op = "cut"]
    /\ UNCHANGED <<src, edits, saves, procs, probe>>

\* set_remote(remote_url)
SetRemote(fresh, remote_url, plan) ==
    \E r \in {set_remote(Manager(proj, fresh), remote_url, plan)} :
        /\ proj' = r.w
        /\ last' = [NoOp EXCEPT !.op = "set_remote", !.kind = r.kind,
                                !.clean = plan = NoPlan, !.failed = r.failed]
        /\ UNCHANGED <<src, edits, saves, procs, probe>>

\* push()
Push(plan) ==
    \E r \in {push(proj, plan)} :
        /\ proj' = r.w
        /\ last' = [NoOp EXCEPT !.op = "push", !.kind = r.kind,
                                !.clean = plan = NoPlan, !.failed = r.failed]
        /\ UNCHANGED <<src, edits, saves, procs, probe>>

\* files_synced = self.sync_files() of invocation i
ProcSync(i) ==
    /\ project_exists(proj)
    /\ procs[i].pc = "idle"
    /\ \E r \in {sync_files(NewManager(proj), src, NoFault)} :
        /\ proj' = r.w
        /\ procs' = [procs EXCEPT ![i].pc = "synced",
                                  ![i].mine = [p \in Paths |-> r.w.mirror[p].data]]
    /\ UNCHANGED <<src, edits, saves, last, probe>>

\* git add . of invocation i
ProcAdd(i) ==
    /\ procs[i].pc = "synced"
    /\ proj' = git_add(proj, GitOk(proj, "add", {}))
    /\ procs' = [procs EXCEPT ![i].pc = "staged"]
    /\ UNCHANGED <<src, edits, saves, last, probe>>

\* git status --porcelain of invocation i
ProcStatus(i) ==
    /\ procs[i].pc = "staged"
    /\ procs' = [procs EXCEPT ![i].pc = "checked",
                              ![i].status = IF GitOk(proj, "status", {})
                                            THEN StatusLines(proj) ELSE {}]
    /\ UNCHANGED <<src, proj, edits, saves, last, probe>>

\* the rest of create_snapshot of invocation i: the no-change branch, or the
\* commit and the record
ProcCommit(i, req, timestamp) ==
    /\ procs[i].pc = "checked"
    /\ proj.head < MaxCommits
    /\ \E r \in {IF procs[i].status = {}
                 THEN snapshot_no_changes(proj, req, NoPlan, timestamp)
                 ELSE snapshot_commit(proj, req, NoPlan, timestamp, procs[i].status)} :
        /\ proj' = r.w
        /\ procs' = [procs EXCEPT ![i].pc = "done",
                                  ![i].kind = r.kind,
                                  ![i].rec = r.rec,
                                  ![i].tree = r.w.headTree.files]
    /\ UNCHANGED <<src, edits, saves, last, probe>>

\* save_commit_record of invocation i, up to commits["snapshots"].append:
\* the file is read and the record appended to the list in memory
AppendLoad(i, record) ==
    /\ procs[i].pc = "idle"
    /\ record.step_id = i
    /\ procs' = [procs EXCEPT ![i].pc = "loaded",
                              ![i].rec = record,
                              ![i].commits = save_commit_record(proj.ledger, record).snapshots]
    /\ UNCHANGED <<src, proj, edits, saves, last, probe>>

\* open(commits_file, "w") of invocation i
AppendOpen(i) ==
    /\ procs[i].pc = "loaded"
    /\ proj' = [proj EXCEPT !.ledger = Truncated]
    /\ procs' = [procs EXCEPT ![i].pc = "opened"]
    /\ UNCHANGED <<src, edits, saves, last, probe>>

\* json.dump(commits, f) of invocation i, and the return
AppendDump(i) ==
    /\ procs[i].pc = "opened"
    /\ proj' = [proj EXCEPT !.ledger = [kind |-> "list", snapshots |-> procs[i].commits]]
    /\ procs' = [procs EXCEPT ![i].pc = "saved"]
    /\ UNCHANGED <<src, edits, saves, last, probe>>

\* the records the ledger specification appends
LedgerInputs ==
    [step_id : {1, 2}, event : Events, commit_sha : {1, 2}, timestamp : Timestamps,
     message : {"default"}, files_changed : {0, 1}]

\* the sync and snapshot engine under source edits and injected failures
Next ==
    \/ \E p \in Paths : \E f \in Files(p) \cup {NoFile} : EditSource(p, f)
    \/ \E fresh \in BOOLEAN : \E plan \in SyncPlans : SyncFiles(fresh, plan)
    \/ \E fresh \in BOOLEAN : \E req \in Requests : \E plan \in SnapPlans :
         \E timestamp \in Timestamps : CreateSnapshot(fresh, req, plan, timestamp)

Spec == Init /\ [][Next]_vars

\* the commit ledger: records appended by callers, and the hook flow that
\* appends the record a snapshot returned
LedgerNext ==
    \/ \E record \in LedgerInputs : SaveCommitRecord(record)
    \/ /\ last.op = "snap" /\ last.kind = "record"
       /\ SaveCommitRecord(last.rec)
    \/ \E fresh \in BOOLEAN : \E req \in Requests : \E timestamp \in Timestamps :
         CreateSnapshot(fresh, req, NoPlan, timestamp)

SpecLedger == Init /\ [][LedgerNext]_vars

\* the backend command surface: snapshots, remote configuration and push,
\* each backend command failing or not
RemoteNext ==
    \/ \E fresh \in BOOLEAN : \E req \in Requests : \E plan \in SnapPlans :
         \E timestamp \in Timestamps : CreateSnapshot(fresh, req, plan, timestamp)
    \/ \E fresh \in BOOLEAN : \E plan \in RemotePlans : \E u \in Urls :
         SetRemote(fresh, u, plan)
    \/ \E plan \in PushPlans : Push(plan)

SpecRemote == Init /\ [][RemoteNext]_vars

\* two concurrent create_snapshot invocations on a project that a first
\* snapshot initialised, the source tree being edited meanwhile
ConcurrentNext ==
    \/ /\ ~project_exists(proj)
       /\ \E req \in Requests : \E timestamp \in Timestamps :
             CreateSnapshot(TRUE, req, NoPlan, timestamp)
    \/ \E p \in Paths : \E f \in Files(p) \cup {NoFile} : EditSource(p, f)
    \/ \E i \in Procs : ProcSync(i)
    \/ \E i \in Procs : ProcAdd(i)
    \/ \E i \in Procs : ProcStatus(i)
    \/ \E i \in Procs : \E req \in Requests : \E timestamp \in Timestamps :
         ProcCommit(i, req, timestamp)

SpecConcurrent == Init /\ [][ConcurrentNext]_vars

\* two invocations appending to one session ledger that may already hold a
\* record appended before either started
AppendersNext ==
    \/ /\ \A i \in Procs : procs[i].pc = "idle"
       /\ \E record \in LedgerInputs : SaveCommitRecord(record)
    \/ \E i \in Procs : \E record \in LedgerInputs : AppendLoad(i, record)
    \/ \E i \in Procs : AppendOpen(i)
    \/ \E i \in Procs : AppendDump(i)

SpecAppenders == Init /\ [][AppendersNext]_vars

\* a session ledger that is appended to, loaded, and now and then left
\* without well-formed JSON by a write cut short
DamagedLedgerNext ==
    \/ \E record \in LedgerInputs : SaveCommitRecord(record)
    \/ LoadCommitRecords
    \/ CutShortSave

SpecDamagedLedger == Init /\ [][DamagedLedgerNext]_vars

\* registrations in one managed root: this project through create_snapshot
\* and through initialize_project, another project, a damaged index file
RegistryNext ==
    \/ \E fresh \in BOOLEAN : \E req \in Requests : \E timestamp \in Timestamps :
         CreateSnapshot(fresh, req, NoPlan, timestamp)
    \/ \E fresh \in BOOLEAN : \E timestamp \in Timestamps :
         InitializeProject(fresh, timestamp)
    \/ RegisterOther
    \/ DamageIndex
    \/ \E p \in Paths : \E f \in Files(p) \cup {NoFile} : EditSource(p, f)

SpecRegistry == Init /\ [][RegistryNext]_vars

\* queries: managers constructed for the spellings of a source path, and
\* paths put to the ignore matcher
QueryNext ==
    \/ \E source_path \in SourcePaths : Construct(source_path)
    \/ \E g \in RuleFiles : \E data \in RuleContents : \E path \in QueryFiles :
         Match(g, data, path)
    \/ \E source_path \in LayoutPaths : \E env_dir \in EnvDirs :
         Layout(source_path, env_dir)

SpecQueries == Init /\ [][QueryNext]_vars

\* sync passes over a source tree with a control directory
ControlNext ==
    \/ \E p \in ControlPaths :
         \E f \in [data : ControlContents(p), mtime : {1}] \cup {NoFile} : ControlEdit(p, f)
    \/ \E fresh \in BOOLEAN : ControlSync(fresh)

SpecControl == Init /\ [][ControlNext]_vars

\* the instants datetime.now() returns to the calls of the configuration
\* specification
Clock == {1, 2}

\* the life of the configuration: snapshots at different instants and
\* remote configuration, through one manager or a new one per call, each
\* backend command failing or not
ConfigNext ==
    \/ \E fresh \in BOOLEAN : \E req \in Requests : \E plan \in SnapPlans :
         \E timestamp \in Clock : CreateSnapshot(fresh, req, plan, timestamp)
    \/ \E fresh \in BOOLEAN : \E plan \in RemotePlans : \E u \in Urls :
         SetRemote(fresh, u, plan)

SpecConfig == Init /\ [][ConfigNext]_vars

----------------------------------------------------------------------------
(* Claims *)

C2_FirstSnapshotCounts ==
    (/\ last.op = "snap" /\ last.inited /\ last.clean
     /\ Eligible(src, proj.patterns) # {})
        => /\ project_exists(proj)
           /\ Present(proj.mirror) = Eligible(src, proj.patterns)
           /\ last.kind = "record"
           /\ last.rec.files_changed >= 1

\* C3 (snapshot after a change), as claimed: after a create_snapshot that
\* returned a record, one tracked source file is changed to a new size and a
\* newer mtime; the next create_snapshot (no failure) returns a record with
\* another commit_sha and files_changed = 1.
C3_ExactlyOneChanged ==
    [][(/\ last'.op = "snap" /\ last'.after = "grow")
          => /\ last'.kind = "record"
             /\ last'.rec.commit_sha # last.bsha
             /\ last'.rec.files_changed = 1]_vars

\* C3 amended: ... returns a record with another commit_sha and
\* files_changed >= 1, and files_changed = 1 when the changed file is not a
\* rule file (.gitignore) and the call uses the ignore rule set the snapshot
\* before used.
C3_ChangedAmended ==
    [][(/\ last'.op = "snap" /\ last'.after = "grow")
          => /\ last'.kind = "record"
             /\ last'.rec.commit_sha # last.bsha
             /\ last'.rec.files_changed >= 1
             /\ (last'.same /\ ~IsRuleFile(last'.path))
                    => last'.rec.files_changed = 1]_vars

C3_Witness ==
    /\ last.op = "snap" /\ last.after = "grow" /\ last.same
    /\ ~IsRuleFile(last.path)
    /\ last.kind = "record" /\ last.rec.files_changed = 1
    /\ proj.headTree.files[last.path] = src[last.path].data

\* C4 (sync idempotence): when sync_files follows a sync_files that returned,
\* with no source edit between, neither pass meeting a filesystem error and
\* both using the same ignore rule set, it returns 0 and leaves the mirror
\* as it was.
C4_SyncIdempotent ==
    [][(last'.op = "sync" /\ last'.after = "same" /\ last'.same)
          => /\ last'.kind = "count" /\ last'.n = 0
             /\ proj'.mirror = proj.mirror]_vars

C4_Witness ==
    /\ last.op = "sync" /\ last.after = "same" /\ last.same
    /\ last.n = 0
    /\ Present(proj.mirror) = Paths

\* C5 (sync completeness): after sync_files returns, every source file the
\* pass did not ignore has a mirror file of the same size at its path, and
\* every source file the pass ignored has no mirror file at its path.
C5_SyncComplete ==
    (last.op = "sync" /\ last.kind = "count")
        => \A p \in Present(src) :
              IF should_ignore(proj.patterns, p)
              THEN proj.mirror[p] = NoFile
              ELSE /\ proj.mirror[p] # NoFile
                   /\ Size(proj.mirror[p].data) = Size(src[p].data)

C5_Witness ==
    /\ last.op = "sync" /\ last.kind = "count" /\ last.after = "other"
    /\ src[PathB] # NoFile /\ should_ignore(proj.patterns, PathB)
    /\ proj.mirror[PathB] = NoFile
    /\ proj.mirror[PathG] # NoFile

\* C6 (deletion reconciliation): after every sync_files pass that returns,
\* the files of the mirror are exactly the source files the pass visited as
\* non-ignored; a mirrored file removed from the source before the pass is
\* gone from the mirror.
C6_DeletionReconciled ==
    (last.op = "sync" /\ last.kind = "count")
        => /\ Present(proj.mirror) = Eligible(src, proj.patterns)
           /\ last.after = "delete" => proj.mirror[last.path] = NoFile

C6_Witness ==
    /\ last.op = "sync" /\ last.kind = "count" /\ last.after = "delete"
    /\ proj.mirror[last.path] = NoFile
    /\ Present(proj.mirror) # {}

\* C7 (ledger append-only): the ledger file of a session folder, loaded after
\* N save_commit_record calls, is the sequence of the N records saved, in
\* call order; so no save changes or removes an earlier record.
C7_LedgerAppendOnly ==
    /\ load_commit_records(proj.ledger) = saves
    /\ Len(load_commit_records(proj.ledger)) = Len(saves)

\* two saves of different records, loaded back in call order
C7_Witness ==
    /\ Len(saves) = 2
    /\ saves[1] # saves[2]
    /\ load_commit_records(proj.ledger)[1] = saves[1]
    /\ load_commit_records(proj.ledger)[2] = saves[2]

\* C8 (commit failure is non-fatal): when the commit command of
\* create_snapshot exits non-zero, the call returns None: it does not raise
\* and returns no CommitRecord.
C8_CommitFailureNone ==
    (last.op = "snap" /\ "commit" \in last.failed)
        => last.kind = "none" /\ last.rec = NoRecord

\* a snapshot whose commit failed, the staged changes left uncommitted
C8_Witness ==
    /\ last.op = "snap"
    /\ last.failed = {"commit"}
    /\ last.kind = "none"
    /\ ~last.inited
    /\ proj.index # proj.headTree

\* C9 (any backend failure is surfaced), as the specification states it: an
\* operation one of whose backend commands exited non-zero does not return a
\* success result (a record, or True).
C9_FailureSurfaced ==
    (last.op \in {"snap", "set_remote", "push"} /\ last.failed # {})
        => last.kind \notin {"record", "true"}

\* C10 (per-file fault isolation), as the specification states it: a
\* sync_files pass that meets a filesystem fault on one file returns a count,
\* every other non-ignored source file is mirrored with its size, and no
\* mirror file remains that is not a non-ignored source file.
C10_FaultIsolated ==
    (last.op = "sync" /\ last.fault # NoFault)
        => /\ last.kind = "count"
           /\ \A p \in Eligible(src, proj.patterns) \ {last.fault.at} :
                 /\ proj.mirror[p] # NoFile
                 /\ Size(proj.mirror[p].data) = Size(src[p].data)
           /\ Present(proj.mirror) \subseteq Eligible(src, proj.patterns)

\* C11 (serialization of concurrent snapshots), as the specification states
\* it: two concurrent create_snapshot invocations on one managed project are
\* never both between the start of their sync and the end of their commit,
\* and the commit an invocation makes holds exactly the mirror content its
\* own sync produced.
C11_Serialized ==
    /\ \A i, j \in Procs : (i # j /\ InSection(i)) => ~InSection(j)
    /\ \A i \in Procs :
          (procs[i].pc = "done" /\ procs[i].kind = "record"
             /\ procs[i].rec.files_changed > 0)
              => procs[i].tree = procs[i].mine

\* the number of entries of the global index with this project_hash
Entries(project_hash) ==
    Cardinality({i \in 1..Len(LoadIndex(proj)) : LoadIndex(proj)[i] = project_hash})

\* C12 (registry uniqueness): after any sequence of registrations in one
\* managed root the global index holds at most one entry per project_hash,
\* and exactly one entry for the project just registered: registering a
\* registered project replaces its entry.
C12_RegistryUnique ==
    /\ \A h \in {ThisHash, OtherHash} : Entries(h) <= 1
    /\ last.hash # "" => Entries(last.hash) = 1

\* a registered project was registered again, next to the entry of another
C12_Witness ==
    /\ last.op = "init" /\ last.hash = ThisHash
    /\ proj.head >= 2
    /\ Len(proj.registry) = 2

\* C13 (config created once): once the configuration of the project is
\* persisted, no create_snapshot or set_remote call, through the same
\* manager or another one, creates it again or changes its project_hash
\* (with it source_path and project_name, which __init__ derives from the
\* same resolved path) or its created_at; remote_url alone changes.
C13_ConfigOnce ==
    [][proj.cfg.exists
         => /\ proj'.cfg.exists
            /\ proj'.cfg.project_hash = proj.cfg.project_hash
            /\ proj'.cfg.created_at = proj.cfg.created_at]_vars

\* a snapshot taken at a later instant than the creation of the
\* configuration, after the remote was set
C13_Witness ==
    /\ last.op = "snap" /\ last.kind = "record" /\ ~last.inited
    /\ last.rec.timestamp = 2
    /\ proj.cfg.exists /\ proj.cfg.created_at = 1
    /\ proj.cfg.remote_url = "url1"

C15_UnresolvedIsError ==
    (probe.kind = "manager" /\ ~PathExists(probe.arg))
        => /\ probe.m.raised
           /\ probe.m.project_hash = <<>>
           /\ probe.m.project_dir = <<>>

\* C16 (fresh ignore rules per sync pass), as the specification states it:
\* a sync_files pass that returns used the rule set of the source tree as it
\* is at that pass, so the mirror holds exactly the source files those rules
\* do not ignore.
C16_FreshRules ==
    (last.op = "sync" /\ last.kind = "count")
        => /\ Present(src) # {} => proj.patterns = LoadPatterns(src)
           /\ Present(proj.mirror) = Eligible(src, LoadPatterns(src))

\* the non-ignored source files whose mirror counterpart is missing, older
\* than the source file, or of another size, for the rule set pats
Outdated(tree, mir, pats) ==
    {p \in Eligible(tree, pats) :
        \/ mir[p] = NoFile
        \/ mir[p].mtime < tree[p].mtime
        \/ Size(mir[p].data) # Size(tree[p].data)}

\* C17 (copy rule and count): a sync_files pass that meets no filesystem
\* error copies a non-ignored source file (the mirror file becomes the source
\* file, modification time included) exactly when its mirror counterpart was
\* missing, older than the source file or of another size, leaves the
\* mirror file of every other non-ignored source file as it was, and returns
\* the number of files it copied.
C17_CopyRule ==
    [][(last'.op = "sync" /\ last'.clean)
          => /\ last'.kind = "count"
             /\ last'.n = Cardinality(Outdated(src, proj.mirror, proj'.patterns))
             /\ \A p \in Eligible(src, proj'.patterns) :
                   IF p \in Outdated(src, proj.mirror, proj'.patterns)
                   THEN proj'.mirror[p] = src[p]
                   ELSE proj'.mirror[p] = proj.mirror[p]]_vars

\* a pass after an edit that copied one file and skipped the other
C17_Witness ==
    /\ last.op = "sync" /\ last.clean /\ last.kind = "count"
    /\ last.after \in {"grow", "other"}
    /\ last.n = 1
    /\ Present(proj.mirror) = Paths

\* C18 (only mirror changes are staged and counted), as the specification
\* states it: with no source change, a create_snapshot on an initialised
\* project with a head commit makes no commit and reports files_changed = 0,
\* whatever was written to the session ledger since the snapshot before.
C18_OnlyMirrorStaged ==
    [][(last'.op = "snap" /\ last'.clean /\ ~last'.inited /\ proj.head > 0
          /\ src' = src /\ edits = 0)
          => /\ proj'.head = proj.head
             /\ last'.kind = "record"
             /\ last'.rec.files_changed = 0]_vars

\* C19 (subdirectory rules are scoped), as the specification states it: a
\* rule declared in the rule file of the subdirectory sub/ makes
\* should_ignore true only for paths under sub/.
C19_SubdirScoped ==
    (probe.kind = "match" /\ probe.rel_dir # <<>> /\ probe.ignored)
        => Under(probe.rel_dir, probe.path)

\* C20 (directory rules apply inside their subtree), as the specification
\* states it: the rule build/ of the root rule file ignores every path with
\* build among its directory components, and the rule build/ of the rule
\* file of sub/ ignores every file under sub/build/, which is then absent
\* from the mirror after sync_files.
C20_DirRuleInSubtree ==
    (probe.kind = "match" /\ probe.rule = "rules_dir")
        => /\ (probe.rel_dir = <<>> /\ "build" \in Parts(Front(probe.path)))
                => (probe.ignored /\ probe.path \notin probe.mirrored)
           /\ (probe.rel_dir # <<>> /\ Under(probe.rel_dir \o <<"build">>, probe.path))
                => (probe.ignored /\ probe.path \notin probe.mirrored)

\* C21 (control directory never mirrored): after any sequence of sync_files
\* passes, whatever the source tree and its rule files hold, no file of the
\* mirror has ".git" among the components of its relative path.
C21_ControlNotMirrored ==
    probe.kind = "control"
        => \A p \in Present(probe.w.mirror) : ".git" \notin Parts(p)

\* two passes over a tree that holds both control files next to a rule file
\* negating the built-in rule, the other files being mirrored
C21_Witness ==
    /\ probe.kind = "control" /\ probe.passes = 2
    /\ probe.tree[<<".git", "config">>] # NoFile
    /\ probe.tree[<<"sub", ".git", "HEAD">>] # NoFile
    /\ probe.tree[<<".gitignore">>] # NoFile
    /\ probe.tree[<<".gitignore">>].data = "rules_negate"
    /\ Present(probe.w.mirror) = {<<"a.txt">>, <<".gitignore">>}

\* the records of the ledger file, as load_commit_records returns them
Loaded == load_commit_records(proj.ledger)

\* C22 (no lost ledger record under concurrent appenders), as the
\* specification states it: when both invocations of save_commit_record have
\* returned, the ledger holds the records appended before them, in order,
\* and the record of each invocation.
C22_NoLostRecord ==
    (\A i \in Procs : procs[i].pc = "saved")
        => /\ Len(Loaded) = Len(saves) + 2
           /\ \A k \in 1..Len(saves) : Loaded[k] = saves[k]
           /\ \A i \in Procs : \E k \in 1..Len(Loaded) : Loaded[k] = procs[i].rec

\* C23 (corrupt or missing ledger is treated as empty): save_commit_record
\* on a commits.json that is missing or not well-formed JSON returns and
\* leaves a ledger that holds exactly the new record; load_commit_records on
\* such a file returns the empty list.
C23_DamagedIsEmpty ==
    [][/\ (last'.op = "save" /\ proj.ledger.kind \in {"missing", "corrupt"})
          => /\ last'.kind = "returned"
             /\ load_commit_records(proj'.ledger) = <<Last(saves')>>
       /\ (last'.op = "load" /\ proj.ledger.kind \in {"missing", "corrupt"})
          => /\ last'.kind = "returned"
             /\ last'.n = 0]_vars

\* a record saved over a ledger that an earlier write left cut short, after
\* a record had been saved to it
C23_Witness ==
    /\ last.op = "save"
    /\ Len(saves) = 2
    /\ proj.ledger.kind = "list"
    /\ load_commit_records(proj.ledger) = <<saves[2]>>

\* C24 (source tree is read-only to the engine), as the specification states
\* it: no path that initialize_project, sync_files, create_snapshot,
\* save_commit_record or set_remote writes lies in the source tree.
C24_SourceReadOnly ==
    probe.kind = "layout"
        => \A path \in probe.written : ~Under(probe.source_path, path)

\* C25 (returned records name a real commit), as the specification states
\* it: every CommitRecord create_snapshot returns carries a non-empty
\* commit_sha, equal to the head commit of the backend at the return, and
\* the files/ content of that commit is the mirror as the sync of the call
\* left it.
C25_RecordNamesCommit ==
    (last.op = "snap" /\ last.kind = "record")
        => /\ last.rec.commit_sha # 0
           /\ last.rec.commit_sha = proj.head
           /\ \A p \in Paths : proj.headTree.files[p] = proj.mirror[p].data

====
